---- MODULE Spec2Model ----
(***************************************************************************)
(* A model of tomlguard's guarded proxy-access protocol:                   *)
(*   GuardBase / TomlAccess_m      (the read-only tree over a document),   *)
(*   GuardProxyEntryMixin.on_fail  (the entry point),                      *)
(*   TomlGuardFailureProxy         (the guarded accessor),                 *)
(*   DefaultedReporter_m           (the process-wide default registry).    *)
(*                                                                         *)
(* Python objects are records of one shape,                                *)
(*   [kind, n, s, items, index],                                           *)
(* kind being the runtime type: "none" (None), "int", "bool", "str",       *)
(* "dict", "list", "NullFallback" (the 'no value' marker), "GuardBase" (a  *)
(* tree: items is its table, index its index) and "GuardList" (the list of *)
(* element trees an array of tables is navigated to).                      *)
(***************************************************************************)
EXTENDS Integers, Sequences, FiniteSets, Bags, TLC

VARIABLES doc, trees, proxies, defaulted, last

vars == <<doc, trees, proxies, defaulted, last>>

\* ------------------------------------------------------------------ bounds
\* live GuardBase instances held by the caller
MaxTrees == 3
\* live TomlGuardFailureProxy instances held by the caller
MaxProxies == 3
\* successful on_fail calls
MaxEntries == 1

\* ------------------------------------------------------------------ values
ROOT == "<root>"

Obj(k, n, s, items, index) == [kind |-> k, n |-> n, s |-> s, items |-> items, index |-> index]

NoneV == Obj("none", 0, "", <<>>, <<>>)
NullFallback == Obj("NullFallback", 0, "", <<>>, <<>>)
IntV(i) == Obj("int", i, "", <<>>, <<>>)
BoolV(b) == Obj("bool", IF b THEN 1 ELSE 0, "", <<>>, <<>>)
StrV(s) == Obj("str", 0, s, <<>>, <<>>)
KV(k, v) == [key |-> k, val |-> v]
\* a dict: its items in insertion order
DictV(items) == Obj("dict", 0, "", items, <<>>)
\* a list: its elements in order, each under the empty key
ListV(elems) == Obj("list", 0, "", [i \in DOMAIN elems |-> KV("", elems[i])], <<>>)

\* Python truthiness, as `if x:` and `x or y` compute it
Truthy(v) ==
  CASE v.kind = "none" -> FALSE
    [] v.kind \in {"int", "bool"} -> v.n # 0
    [] v.kind = "str" -> v.s # ""
    [] v.kind \in {"dict", "list", "GuardBase", "GuardList"} -> Len(v.items) > 0
    [] OTHER -> TRUE

\* key in table
HasKey(table, k) == \E i \in DOMAIN table.items : table.items[i].key = k

\* table.get(k, None)
DictGet(table, k) ==
  IF HasKey(table, k)
  THEN table.items[CHOOSE i \in DOMAIN table.items : table.items[i].key = k].val
  ELSE NoneV

\* attr.replace("_", "-") on the attribute names the model uses
Hyphenated(attr) ==
  CASE attr = "a_b" -> "a-b"
    [] OTHER -> attr

\* ------------------------------------------------------------------ GuardBase
\* GuardBase.__init__: data or {}, (index or ["<root>"])[:]
GuardBase(data, index) ==
  Obj("GuardBase", 0, "", IF Truthy(data) THEN data.items ELSE <<>>,
      IF index = <<>> THEN <<ROOT>> ELSE index)

Raise(err) == [status |-> err, val |-> NoneV]
Return(v) == [status |-> "ok", val |-> v]

\* mutant: only the name as given is looked for before raising
AccessGetAttr_NameOnly(self, attr) ==
  IF ~HasKey(self, attr)
  THEN Raise("TomlAccessError")
  ELSE LET first == DictGet(self, attr)
           result == IF Truthy(first) THEN first ELSE DictGet(self, Hyphenated(attr))
       IN CASE result.kind = "dict" ->
                 Return(GuardBase(result, Append(self.index, attr)))
            [] result.kind = "list"
               /\ \A i \in DOMAIN result.items : result.items[i].val.kind = "dict" ->
                 Return(Obj("GuardList", 0, "", result.items, self.index))
            [] OTHER -> Return(result)

\* mutant: the element trees of an array of tables get the accessed name appended
AccessGetAttr_ElementIndex(self, attr) ==
  IF ~HasKey(self, attr) /\ ~HasKey(self, Hyphenated(attr))
  THEN Raise("TomlAccessError")
  ELSE LET first == DictGet(self, attr)
           result == IF Truthy(first) THEN first ELSE DictGet(self, Hyphenated(attr))
       IN CASE result.kind = "dict" ->
                 Return(GuardBase(result, Append(self.index, attr)))
            [] result.kind = "list"
               /\ \A i \in DOMAIN result.items : result.items[i].val.kind = "dict" ->
                 Return(Obj("GuardList", 0, "", result.items, Append(self.index, attr)))
            [] OTHER -> Return(result)

\* TomlAccess_m.__getattr__
AccessGetAttr(self, attr) ==
  IF ~HasKey(self, attr) /\ ~HasKey(self, Hyphenated(attr))
  THEN Raise("TomlAccessError")
  ELSE LET first == DictGet(self, attr)
           result == IF Truthy(first) THEN first ELSE DictGet(self, Hyphenated(attr))
       IN CASE result.kind = "dict" ->
                 Return(GuardBase(result, Append(self.index, attr)))
            [] result.kind = "list"
               /\ \A i \in DOMAIN result.items : result.items[i].val.kind = "dict" ->
                 Return(Obj("GuardList", 0, "", result.items, self.index))
            [] OTHER -> Return(result)

\* dict(guard): the keys of the table, each with guard[key], which is __getattr__(key)
AsDict(g) ==
  DictV([i \in DOMAIN g.items |->
           KV(g.items[i].key, AccessGetAttr(g, g.items[i].key).val)])

\* the trees of a GuardList: each element wrapped with the parent's index
ElementTrees(gl) == [i \in DOMAIN gl.items |-> GuardBase(gl.items[i].val, gl.index)]

\* ------------------------------------------------------------------ documents
Names == {"test", "blah", "a_b", "arr"}

Doc1 ==
  DictV(<< KV("test", DictV(<< KV("blah", StrV("final")), KV("a_b", BoolV(FALSE)),
                               KV("arr", NoneV) >>)),
           KV("a_b", DictV(<<>>)),
           KV("arr", ListV(<< DictV(<< KV("blah", StrV("v")) >>) >>)) >>)

Doc2 ==
  DictV(<< KV("test", StrV("blah")),
           KV("a_b", DictV(<<>>)),
           KV("a-b", DictV(<< KV("test", IntV(7)), KV("arr", ListV(<< DictV(<<>>) >>)) >>)),
           KV("blah", DictV(<< KV("arr", ListV(<< IntV(1) >>)), KV("test", DictV(<<>>)),
                               KV("a_b", StrV("")) >>)) >>)

Docs == {Doc1, Doc2}

\* ------------------------------------------------------------------ reporter
RECURSIVE Join(_, _)
\* sep.join(strs)
Join(strs, sep) ==
  IF strs = <<>> THEN ""
  ELSE IF Len(strs) = 1 THEN strs[1]
  ELSE strs[1] \o sep \o Join(Tail(strs), sep)

RECURSIVE ReprOf(_, _)
\* repr(v), cls being the name the tree class prints in its __repr__
ReprOf(cls, v) ==
  CASE v.kind = "none" -> "None"
    [] v.kind = "NullFallback" -> "typing.NoReturn"
    [] v.kind = "int" -> ToString(v.n)
    [] v.kind = "bool" -> IF v.n # 0 THEN "True" ELSE "False"
    [] v.kind = "str" -> "'" \o v.s \o "'"
    [] v.kind = "dict" ->
         "{" \o Join([i \in DOMAIN v.items |->
                        "'" \o v.items[i].key \o "': " \o ReprOf(cls, v.items[i].val)], ", ")
             \o "}"
    [] v.kind = "list" ->
         "[" \o Join([i \in DOMAIN v.items |-> ReprOf(cls, v.items[i].val)], ", ") \o "]"
    [] v.kind = "tuple" ->
         "(" \o Join([i \in DOMAIN v.items |-> ReprOf(cls, v.items[i].val)], ", ")
             \o (IF Len(v.items) = 1 THEN ",)" ELSE ")")
    [] v.kind = "GuardBase" ->
         "<" \o cls \o ":["
             \o Join([i \in DOMAIN v.items |-> "'" \o v.items[i].key \o "'"], ", ") \o "]>"
    [] v.kind = "GuardList" ->
         "[" \o Join([i \in DOMAIN v.items |->
                        ReprOf(cls, GuardBase(v.items[i].val, v.index))], ", ") \o "]"

\* repr(v) in tomlguard
Repr(v) == ReprOf("TomlGuard", v)

\* str(v)
StrOf(v) == IF v.kind = "str" THEN v.s ELSE Repr(v)

\* str(val).lower() of a bool
LowerBool(v) == IF v.n # 0 THEN "true" ELSE "false"

\* mutant: a list append in place of set.add
SetAdd_Always(reg, entry) == reg (+) SetToBag({entry})

\* set.add on _defaulted, kept as a bag so that a second copy would show
SetAdd(reg, entry) ==
  IF BagIn(entry, reg) THEN reg ELSE reg (+) SetToBag({entry})

\* DefaultedReporter_m.add_defaulted, called with a str index
add_defaulted(reg, index, val, types) ==
  LET index_str == IF val.kind = "bool" THEN index \o " = " \o LowerBool(val) \o " # <" \o types \o ">"
                   ELSE index \o " = " \o Repr(val) \o " # <" \o types \o ">"
  IN SetAdd(reg, index_str)

\* DefaultedReporter_m.report_defaulted: list(_defaulted), as the bag of its elements
report_defaulted(reg) == reg

\* ------------------------------------------------------------------ proxies
\* a declared type: its __name__ and the runtime kinds isinstance accepts
AnyT == [name |-> "Any", accepts |-> {}]
NoType == [name |-> "None", accepts |-> {}]
IntT == [name |-> "int", accepts |-> {"int", "bool"}]
StrT == [name |-> "str", accepts |-> {"str"}]

\* the tuple (None,), which stands for a fallback of None
TupleNone == Obj("tuple", 0, "", <<KV("", NoneV)>>, <<>>)

isinstance(val, types) == val.kind \in types.accepts

\* TomlGuardProxy._types_str
_types_str(self) == self.types.name

\* TomlGuardProxy._index
_index(self, sub) == IF sub = "" THEN self.index ELSE Append(self.index, sub)

\* TomlGuardProxy._match_type
_match_type(self, val) ==
  IF self.types # AnyT /\ ~isinstance(val, self.types)
  THEN Raise("TypeError")
  ELSE Return(val)

\* TomlGuardProxy.__init__ then TomlGuardFailureProxy.__init__; the fields parent, via,
\* path, entry and missed are history: where the instance came from
FailureProxy(data, types, index, fallback) ==
  LET self == [data |-> data,
               types |-> IF types = NoType THEN AnyT ELSE types,
               index |-> IF index = <<>> THEN <<ROOT>> ELSE index,
               fallback |-> IF fallback = TupleNone THEN NoneV ELSE fallback,
               parent |-> 0, via |-> <<>>, path |-> <<>>, entry |-> data, missed |-> FALSE]
      checked == IF Truthy(fallback) THEN _match_type(self, self.fallback) ELSE Return(NoneV)
  IN [status |-> checked.status, proxy |-> self]

\* mutant: the target is recorded whatever it is, never the fallback
_notify_Data(self, reg) ==
  IF self.data.kind = "GuardBase" \/ self.index = <<>> THEN reg
  ELSE add_defaulted(reg, Join(self.index, "."), self.data, _types_str(self))

\* mutant: the registry is started afresh by each entry recorded
_notify_Afresh(self, reg) ==
  CASE self.data.kind = "GuardBase" -> reg
    [] self.data.kind # "GuardBase" /\ self.index = <<>> -> reg
    [] self.data.kind = "NullFallback" /\ self.index # <<>> ->
         add_defaulted(EmptyBag, Join(self.index, "."), self.fallback, _types_str(self))
    [] OTHER ->
         add_defaulted(EmptyBag, Join(self.index, "."), self.data, _types_str(self))

\* TomlGuardProxy._notify
_notify(self, reg) ==
  CASE self.data.kind = "GuardBase" -> reg
    [] self.data.kind # "GuardBase" /\ self.index = <<>> -> reg
    [] self.data.kind = "NullFallback" /\ self.index # <<>> ->
         add_defaulted(reg, Join(self.index, "."), self.fallback, _types_str(self))
    [] OTHER ->
         add_defaulted(reg, Join(self.index, "."), self.data, _types_str(self))

\* a wrapper argument: None (then lambda x: x) or the builtin str
Wrappers == {"None", "str"}
ApplyWrapper(w, x) == IF w = "None" THEN x ELSE StrV(StrOf(x))

\* mutant: the declared type is checked on the raw value, the wrapper applied after
CallValue_RawCheck(self, wrapper, fallback_wrapper) ==
  LET useFallback == self.data.kind \in {"NullFallback", "none"}
      raw == IF useFallback THEN self.fallback
             ELSE IF self.data.kind = "GuardBase" THEN AsDict(self.data) ELSE self.data
      checked == _match_type(self, raw)
  IN IF self.data.kind = "NullFallback" /\ self.fallback.kind = "NullFallback"
     THEN Raise("ValueError")
     ELSE IF checked.status # "ok" THEN checked
     ELSE IF useFallback /\ raw.kind = "none" THEN Return(raw)
     ELSE Return(ApplyWrapper(IF useFallback THEN fallback_wrapper ELSE wrapper, raw))

\* mutant: a null target counts as a value found and goes through the value wrapper
CallValue_NullIsValue(self, wrapper, fallback_wrapper) ==
  CASE self.data.kind = "NullFallback" /\ self.fallback.kind = "NullFallback" ->
         Raise("ValueError")
    [] self.data.kind = "NullFallback" /\ self.fallback.kind = "none" ->
         _match_type(self, NoneV)
    [] self.data.kind = "NullFallback" /\ self.fallback.kind \notin {"none", "NullFallback"} ->
         _match_type(self, ApplyWrapper(fallback_wrapper, self.fallback))
    [] self.data.kind = "GuardBase" ->
         _match_type(self, ApplyWrapper(wrapper, AsDict(self.data)))
    [] OTHER ->
         _match_type(self, ApplyWrapper(wrapper, self.data))

\* TomlGuardFailureProxy.__call__, after _notify: the match and the final _match_type
CallValue(self, wrapper, fallback_wrapper) ==
  CASE self.data.kind = "NullFallback" /\ self.fallback.kind = "NullFallback" ->
         Raise("ValueError")
    [] self.data.kind \in {"NullFallback", "none"} /\ self.fallback.kind = "none" ->
         _match_type(self, NoneV)
    [] self.data.kind \in {"NullFallback", "none"}
       /\ self.fallback.kind \notin {"none", "NullFallback"} ->
         _match_type(self, ApplyWrapper(fallback_wrapper, self.fallback))
    [] self.data.kind = "none" /\ self.fallback.kind = "NullFallback" ->
         _match_type(self, ApplyWrapper(fallback_wrapper, self.fallback))
    [] self.data.kind = "GuardBase" ->
         _match_type(self, ApplyWrapper(wrapper, AsDict(self.data)))
    [] OTHER ->
         _match_type(self, ApplyWrapper(wrapper, self.data))

\* TomlGuardFailureProxy.__call__: the registry after it and what it returns or raises
FailureCall(self, reg, wrapper, fallback_wrapper) ==
  [reg |-> _notify(self, reg), out |-> CallValue(self, wrapper, fallback_wrapper)]

\* mutant: the receiver's own index list is extended and shared with the new instance
_inject_SharedIndex(ps, id, val, attr, clear) ==
  LET self == ps[id]
      v == IF clear THEN NullFallback
           ELSE IF val = NullFallback THEN self.data
           ELSE val
      made == FailureProxy(v, self.types, _index(self, attr), self.fallback).proxy
  IN Append([ps EXCEPT ![id].index = _index(self, attr)],
            [made EXCEPT !.parent = id, !.via = <<attr>>,
                         !.path = Append(self.path, attr),
                         !.entry = self.entry,
                         !.missed = self.missed \/ clear])

\* mutant: the new target is written to the receiver as well
_inject_SharedTarget(ps, id, val, attr, clear) ==
  LET self == ps[id]
      v == IF clear THEN NullFallback
           ELSE IF val = NullFallback THEN self.data
           ELSE val
      made == FailureProxy(v, self.types, _index(self, attr), self.fallback).proxy
  IN Append([ps EXCEPT ![id].data = v],
            [made EXCEPT !.parent = id, !.via = <<attr>>,
                         !.path = Append(self.path, attr),
                         !.entry = self.entry,
                         !.missed = self.missed \/ clear])

\* TomlGuardFailureProxy._inject, on the pool of live proxies: the pool with the new
\* instance appended (the constructor's type check passed when the chain was entered
\* and passes again: types and fallback are the receiver's)
_inject(ps, id, val, attr, clear) ==
  LET self == ps[id]
      v == IF clear THEN NullFallback
           ELSE IF val = NullFallback THEN self.data
           ELSE val
      made == FailureProxy(v, self.types, _index(self, attr), self.fallback).proxy
  IN Append(ps, [made EXCEPT !.parent = id, !.via = <<attr>>,
                             !.path = Append(self.path, attr),
                             !.entry = self.entry,
                             !.missed = self.missed \/ clear])

\* mutant: a failed lookup leaves the target where it was
FailureGetAttr_KeepOnMiss(ps, id, attr) ==
  LET self == ps[id]
  IN CASE self.data.kind = "NullFallback" -> _inject(ps, id, NullFallback, attr, TRUE)
       [] self.data.kind = "GuardBase" ->
            LET got == AccessGetAttr(self.data, attr)
            IN IF got.status = "ok"
               THEN _inject(ps, id, got.val, attr, FALSE)
               ELSE _inject(ps, id, NullFallback, attr, FALSE)
       [] OTHER -> _inject(ps, id, NullFallback, attr, FALSE)

\* mutant: a chain that has missed looks the next name up from the entry tree again
FailureGetAttr_Recover(ps, id, attr) ==
  LET self == ps[id]
      from == IF self.data.kind = "NullFallback" THEN self.entry ELSE self.data
  IN CASE from.kind = "GuardBase" ->
            LET got == AccessGetAttr(from, attr)
            IN IF got.status = "ok"
               THEN _inject(ps, id, got.val, attr, FALSE)
               ELSE _inject(ps, id, NullFallback, attr, TRUE)
       [] OTHER -> _inject(ps, id, NullFallback, attr, FALSE)

\* mutant: an access on a leaf target clears the target
FailureGetAttr_LeafClears(ps, id, attr) ==
  LET self == ps[id]
  IN CASE self.data.kind = "NullFallback" -> _inject(ps, id, NullFallback, attr, TRUE)
       [] self.data.kind = "GuardBase" ->
            LET got == AccessGetAttr(self.data, attr)
            IN IF got.status = "ok"
               THEN _inject(ps, id, got.val, attr, FALSE)
               ELSE _inject(ps, id, NullFallback, attr, TRUE)
       [] OTHER -> _inject(ps, id, NullFallback, attr, TRUE)

\* TomlGuardFailureProxy.__getattr__
FailureGetAttr(ps, id, attr) ==
  LET self == ps[id]
  IN CASE self.data.kind = "NullFallback" -> _inject(ps, id, NullFallback, attr, TRUE)
       [] self.data.kind = "GuardBase" ->
            LET got == AccessGetAttr(self.data, attr)
            IN IF got.status = "ok"
               THEN _inject(ps, id, got.val, attr, FALSE)
               ELSE _inject(ps, id, NullFallback, attr, TRUE)
       [] OTHER -> _inject(ps, id, NullFallback, attr, FALSE)

RECURSIVE FoldGetAttr(_, _, _)
\* the loop of TomlGuardFailureProxy.__getitem__ over a tuple of keys
FoldGetAttr(ps, id, keys) ==
  IF keys = <<>> THEN ps
  ELSE LET next == FailureGetAttr(ps, id, Head(keys))
       IN FoldGetAttr(next, Len(next), Tail(keys))

\* ------------------------------------------------------------------ entry point
\* mutant: the index is never compared with the root sentinel
on_fail_NoCheck(self, fallback, types, non_root) ==
  FailureProxy(self, types, <<>>, fallback)

\* GuardProxyEntryMixin.on_fail
on_fail(self, fallback, types, non_root) ==
  IF self.index # <<ROOT>> /\ ~non_root
  THEN [status |-> "TomlAccessError", proxy |-> FailureProxy(self, types, <<>>, fallback).proxy]
  ELSE FailureProxy(self, types, <<>>, fallback)

\* ------------------------------------------------------------------ inputs
Fallbacks == {StrV("aweg"), IntV(5), BoolV(FALSE), NoneV}
TypeArgs == {NoType, StrT}
KeyTuples == {<<"test", "blah">>, <<"blah", "test">>}
WrapperArgs == {<<"None", "None">>, <<"str", "str">>}

\* ------------------------------------------------------------------ state
\* what the last operation was, on which instance, and how it ended
Outcome(op, self, status, val, made, before, w, fw) ==
  [op |-> op, self |-> self, status |-> status, val |-> val, made |-> made,
   before |-> before, w |-> w, fw |-> fw, keys |-> <<>>]

\* the same, of an operation given names or keys
OutcomeAt(o, keys) == [o EXCEPT !.keys = keys]

\* a GuardBase the caller holds; attrs are the instance attributes assignment has set;
\* steps and table_steps are history: the navigation steps from the document root that
\* led to it, and those of them that entered a table
Tree(obj, steps, table_steps) ==
  [obj |-> obj, mutable |-> FALSE, attrs |-> {}, steps |-> steps,
   table_steps |-> table_steps]

\* TomlGuard(data, mutable=TRUE)
MutableTree(obj) == [Tree(obj, 0, 0) EXCEPT !.mutable = TRUE]

\* tree.attr: an instance attribute if assignment has set one, else __getattr__
TreeGetAttr(tree, attr) ==
  IF \E kv \in tree.attrs : kv.key = attr
  THEN Return((CHOOSE kv \in tree.attrs : kv.key = attr).val)
  ELSE AccessGetAttr(tree.obj, attr)

RECURSIVE AccessGetItem(_, _)
\* TomlAccess_m.__getitem__ with a tuple of keys: curr.__getattr__(key) for each key;
\* a value that is not a tree has no __getattr__
AccessGetItem(curr, keys) ==
  IF keys = <<>> THEN Return(curr)
  ELSE IF curr.kind # "GuardBase" THEN Raise("AttributeError")
  ELSE LET got == AccessGetAttr(curr, Head(keys))
       IN IF got.status # "ok" THEN got ELSE AccessGetItem(got.val, Tail(keys))

\* mutant: assignment goes through whatever the mutable flag says
__setattr___Unchecked(tree, attr, value) ==
  [status |-> "ok",
   tree |-> [tree EXCEPT !.attrs = {kv \in tree.attrs : kv.key # attr} \cup {KV(attr, value)}]]

\* TomlAccess_m.__setattr__: the outcome and the tree after it
__setattr__(tree, attr, value) ==
  IF ~tree.mutable
  THEN [status |-> "TypeError", tree |-> tree]
  ELSE [status |-> "ok",
        tree |-> [tree EXCEPT !.attrs = {kv \in tree.attrs : kv.key # attr}
                                          \cup {KV(attr, value)}]]

Init ==
  /\ doc \in Docs
  /\ trees = <<Tree(GuardBase(doc, <<>>), 0, 0)>>
  /\ proxies = <<>>
  /\ defaulted = EmptyBag
  /\ last = Outcome("init", 0, "ok", NoneV, 0, EmptyBag, "None", "None")

\* tree.attr on a GuardBase the caller holds
Navigate(t, attr) ==
  LET got == TreeGetAttr(trees[t], attr)
      news == IF got.status # "ok" THEN <<>>
              ELSE IF got.val.kind = "GuardBase" THEN <<got.val>>
              ELSE IF got.val.kind = "GuardList" THEN ElementTrees(got.val)
              ELSE <<>>
  IN /\ Len(trees) + Len(news) <= MaxTrees
     /\ trees' = trees \o [i \in DOMAIN news |->
                              Tree(news[i], trees[t].steps + 1,
                                   trees[t].table_steps
                                     + IF got.val.kind = "GuardBase" THEN 1 ELSE 0)]
     /\ last' = OutcomeAt(Outcome("navigate", t, got.status, got.val,
                                  IF news = <<>> THEN 0 ELSE Len(trees) + 1, defaulted,
                                  "None", "None"), <<attr>>)
     /\ UNCHANGED <<doc, proxies, defaulted>>

\* the proxies on_fail made
Entries(ps) == Cardinality({p \in DOMAIN ps : ps[p].parent = 0})

\* tree.on_fail(fallback, types, non_root)
OnFail(t, fallback, types, non_root) ==
  LET got == on_fail(trees[t].obj, fallback, types, non_root)
  IN /\ got.status = "ok" => Len(proxies) < MaxProxies /\ Entries(proxies) < MaxEntries
     /\ proxies' = IF got.status = "ok" THEN Append(proxies, got.proxy) ELSE proxies
     /\ last' = Outcome("on_fail", t, got.status, fallback,
                        IF got.status = "ok" THEN Len(proxies) + 1 ELSE 0, defaulted,
                        types.name, IF non_root THEN "non_root" ELSE "None")
     /\ UNCHANGED <<doc, trees, defaulted>>

\* proxy.attr
GetAttr(p, attr) ==
  /\ Len(proxies) < MaxProxies
  /\ proxies' = FailureGetAttr(proxies, p, attr)
  /\ last' = Outcome("getattr", p, "ok", NoneV, Len(proxies) + 1, defaulted, "None", "None")
  /\ UNCHANGED <<doc, trees, defaulted>>

\* proxy[keys] with a tuple of keys: the proxies made on the way are dropped, the
\* caller holds the last one
GetItem(p, keys) ==
  LET all == FoldGetAttr(proxies, p, keys)
      made == [all[Len(all)] EXCEPT !.parent = p, !.via = keys]
  IN /\ Len(proxies) < MaxProxies
     /\ proxies' = Append(SubSeq(all, 1, Len(proxies)), made)
     /\ last' = Outcome("getitem", p, "ok", NoneV, Len(proxies) + 1, defaulted, "None", "None")
     /\ UNCHANGED <<doc, trees, defaulted>>

\* proxy(wrapper, fallback_wrapper)
Call(p, wrapper, fallback_wrapper) ==
  LET got == FailureCall(proxies[p], defaulted, wrapper, fallback_wrapper)
  IN /\ defaulted' = got.reg
     /\ last' = Outcome("call", p, got.out.status, got.out.val, 0, defaulted,
                        wrapper, fallback_wrapper)
     /\ UNCHANGED <<doc, trees, proxies>>

\* one document root and the guarded chains entered from it
Next ==
  \/ \E t \in DOMAIN trees, f \in Fallbacks, ty \in TypeArgs : OnFail(t, f, ty, FALSE)
  \/ \E p \in DOMAIN proxies, attr \in Names : GetAttr(p, attr)
  \/ \E p \in DOMAIN proxies, keys \in KeyTuples : GetItem(p, keys)
  \/ \E p \in DOMAIN proxies, w \in WrapperArgs : Call(p, w[1], w[2])

Spec == Init /\ [][Next]_vars

\* navigation of the plain tree, and the entry point called on whatever it reaches
NextEntry ==
  \/ \E t \in DOMAIN trees, attr \in Names : Navigate(t, attr)
  \/ \E t \in DOMAIN trees, f \in Fallbacks, ty \in TypeArgs, nr \in BOOLEAN :
       OnFail(t, f, ty, nr)

SpecEntry == Init /\ [][NextEntry]_vars

\* a document with hyphenated keys only, and an array of tables below a table
Doc3 ==
  DictV(<< KV("a-b", DictV(<< KV("blah", IntV(0)) >>)),
           KV("test", DictV(<< KV("arr", ListV(<< DictV(<< KV("a-b", IntV(1)) >>),
                                                  DictV(<<>>) >>)),
                               KV("a_b", IntV(3)) >>)) >>)

TreeDocs == Docs \cup {Doc3}

\* TomlGuard(doc) and TomlGuard(doc, mutable=True)
InitTree ==
  /\ doc \in TreeDocs
  /\ \E m \in BOOLEAN :
       trees = << IF m THEN MutableTree(GuardBase(doc, <<>>)) ELSE Tree(GuardBase(doc, <<>>), 0, 0) >>
  /\ proxies = <<>>
  /\ defaulted = EmptyBag
  /\ last = Outcome("init", 0, "ok", NoneV, 0, EmptyBag, "None", "None")

\* tree[keys] with a tuple of keys
Index(t, keys) ==
  LET got == AccessGetItem(trees[t].obj, keys)
  IN /\ last' = OutcomeAt(Outcome("index", t, got.status, got.val, 0, defaulted,
                                  "None", "None"), keys)
     /\ UNCHANGED <<doc, trees, proxies, defaulted>>

AssignValues == {IntV(5)}

\* tree.attr = value
SetAttr(t, attr, value) ==
  LET got == __setattr__(trees[t], attr, value)
  IN /\ trees' = [trees EXCEPT ![t] = got.tree]
     /\ last' = OutcomeAt(Outcome("setattr", t, got.status, value, 0, defaulted,
                                  "None", "None"), <<attr>>)
     /\ UNCHANGED <<doc, proxies, defaulted>>

IndexKeys == KeyTuples \cup {<<"test", "a_b">>, <<"a_b", "blah">>}

\* reading and assigning on the plain tree
NextTree ==
  \/ \E t \in DOMAIN trees, attr \in Names : Navigate(t, attr)
  \/ \E t \in DOMAIN trees, keys \in IndexKeys : Index(t, keys)
  \/ \E t \in DOMAIN trees, attr \in Names, v \in AssignValues : SetAttr(t, attr, v)

SpecTree == InitTree /\ [][NextTree]_vars

\* ------------------------------------------------------------------ merge
\* arguments of one merge call
MaxArgs == 3

\* data.keys()
Keys(data) == {data.items[i].key : i \in DOMAIN data.items}

\* dict(x) of a merge argument, a tree or a plain dict
ToDict(x) == IF x.kind = "GuardBase" THEN AsDict(x) ELSE DictV(x.items)

RECURSIVE ChainKeys(_)
\* iteration over a ChainMap: the keys of the last mapping first, then the new keys of
\* each mapping before it
ChainKeys(maps) ==
  IF maps = <<>> THEN <<>>
  ELSE LET later == ChainKeys(Tail(maps))
           seen == {later[i] : i \in DOMAIN later}
           own == SelectSeq([i \in DOMAIN Head(maps).items |-> Head(maps).items[i].key],
                            LAMBDA k : k \notin seen)
       IN later \o own

\* ChainMap(*maps) as the mapping it reads as: a key has the value of the first
\* mapping that holds it
ChainMap(maps) ==
  LET keys == ChainKeys(maps)
      first(k) == CHOOSE i \in DOMAIN maps :
                    /\ HasKey(maps[i], k)
                    /\ \A j \in 1..(i - 1) : ~HasKey(maps[j], k)
  IN DictV([n \in DOMAIN keys |-> KV(keys[n], DictGet(maps[first(keys[n])], keys[n]))])

\* from_dict(data): cls(data)
from_dict(data) == GuardBase(data, <<>>)

\* the type of the table a tree wraps: a dict, unless the tree was made on a ChainMap
TableType(self) == IF self.s = "" THEN "dict" ELSE self.s

\* cls(data) with data a ChainMap: `data or {}` keeps the ChainMap as the table
OverChainMap(self) == [self EXCEPT !.s = "ChainMap"]

\* GuardBase.items: the match accepts a table that is a dict (a list or a GuardBase
\* table does not occur here) and raises TypeError for any other
GuardItems(self) ==
  IF TableType(self) = "dict" THEN Return(self.items) ELSE Raise("TypeError")

\* GuardBase.values
GuardValues(self) ==
  IF TableType(self) = "dict"
  THEN Return([i \in DOMAIN self.items |-> self.items[i].val])
  ELSE Raise("TypeError")

\* GuardBase.__iter__: iter(table.items()), which any mapping supports
GuardIter(self) == Return(self.items)

\* GuardBase.__len__
GuardLen(self) == Len(self.items)

\* GuardBase.__contains__
GuardContains(self, key) == key \in Keys(self)

RECURSIVE KeyConflict(_, _)
\* the conflict loop of merge: some argument holds a key an earlier one held
KeyConflict(args, curr_keys) ==
  IF args = <<>> THEN FALSE
  ELSE \/ curr_keys \cap Keys(Head(args)) # {}
       \/ KeyConflict(Tail(args), curr_keys \cup Keys(Head(args)))

\* mutant: keys one level below the top are compared too
merge_NestedKeys(args, shadow) ==
  LET below(d) == UNION {Keys(d.items[i].val) :
                           i \in {j \in DOMAIN d.items : d.items[j].val.kind = "dict"}}
      all(i) == Keys(args[i]) \cup below(args[i])
  IN IF ~shadow /\ \E i \in DOMAIN args, j \in DOMAIN args : i < j /\ all(i) \cap all(j) # {}
     THEN Raise("KeyError")
     ELSE Return(OverChainMap(from_dict(ChainMap([i \in DOMAIN args |-> ToDict(args[i])]))))

\* TomlGuard.merge
merge(args, shadow) ==
  IF KeyConflict(args, {}) /\ ~shadow
  THEN Raise("KeyError")
  ELSE Return(OverChainMap(from_dict(ChainMap([i \in DOMAIN args |-> ToDict(args[i])]))))

MergeA == DictV(<< KV("test", IntV(1)), KV("a_b", IntV(0)) >>)
MergeB == DictV(<< KV("test", IntV(2)), KV("blah", DictV(<< KV("test", IntV(3)) >>)) >>)
MergeC == DictV(<< KV("blah", StrV("")), KV("arr", DictV(<< KV("a_b", IntV(5)) >>)) >>)

\* what merge is given: trees and plain dicts
MergeArgs ==
  {GuardBase(MergeA, <<>>), MergeA, GuardBase(MergeB, <<>>), MergeC}

\* TomlGuard(data), or a plain dict, held by the caller
Construct(x) ==
  /\ Len(trees) < MaxTrees
  /\ trees' = Append(trees, Tree(x, 0, 0))
  /\ last' = Outcome("construct", Len(trees) + 1, "ok", x, Len(trees) + 1, defaulted,
                     "None", "None")
  /\ UNCHANGED <<doc, proxies, defaulted>>

\* the tuples of at most n of the caller's trees
ArgTuples(n) == UNION {[1..k -> DOMAIN trees] : k \in 1..n}

\* TomlGuard.merge(*args, shadow=shadow) on trees and dicts the caller holds
Merge(ts, shadow) ==
  LET got == merge([i \in DOMAIN ts |-> trees[ts[i]].obj], shadow)
  IN /\ last' = OutcomeAt(Outcome("merge", 0, got.status, got.val, 0, defaulted,
                                  IF shadow THEN "shadow" ELSE "None", "None"), ts)
     /\ UNCHANGED <<doc, trees, proxies, defaulted>>

InitMerge ==
  /\ doc = MergeA
  /\ trees = <<>>
  /\ proxies = <<>>
  /\ defaulted = EmptyBag
  /\ last = Outcome("init", 0, "ok", NoneV, 0, EmptyBag, "None", "None")

NextMerge ==
  \/ \E x \in MergeArgs : Construct(x)
  \/ \E ts \in ArgTuples(MaxArgs), shadow \in BOOLEAN : Merge(ts, shadow)

SpecMerge == InitMerge /\ [][NextMerge]_vars

\* two guarded chains on one document, their steps interleaved in any order
MaxChains == 2
MaxChainProxies == 4

\* tree.on_fail(fallback, types), for a second chain as for the first
ChainEnter(t, fallback, types) ==
  LET got == on_fail(trees[t].obj, fallback, types, FALSE)
  IN /\ Len(proxies) < MaxChainProxies /\ Entries(proxies) < MaxChains
     /\ got.status = "ok"
     /\ proxies' = Append(proxies, got.proxy)
     /\ last' = Outcome("on_fail", t, got.status, fallback, Len(proxies) + 1, defaulted,
                        types.name, "None")
     /\ UNCHANGED <<doc, trees, defaulted>>

\* proxy.attr on either chain
ChainGetAttr(p, attr) ==
  /\ Len(proxies) < MaxChainProxies
  /\ proxies' = FailureGetAttr(proxies, p, attr)
  /\ last' = Outcome("getattr", p, "ok", NoneV, Len(proxies) + 1, defaulted, "None", "None")
  /\ UNCHANGED <<doc, trees, defaulted>>

\* proxy() on either chain
ChainCall(p) ==
  LET got == FailureCall(proxies[p], defaulted, "None", "None")
  IN /\ defaulted' = got.reg
     /\ last' = Outcome("call", p, got.out.status, got.out.val, 0, defaulted, "None", "None")
     /\ UNCHANGED <<doc, trees, proxies>>

NextChains ==
  \/ \E t \in DOMAIN trees, f \in {StrV("aweg"), IntV(5)} : ChainEnter(t, f, NoType)
  \/ \E p \in DOMAIN proxies, attr \in {"test", "blah"} : ChainGetAttr(p, attr)
  \/ \E p \in DOMAIN proxies : ChainCall(p)

SpecChains == Init /\ [][NextChains]_vars

\* every operation on one document: navigation, the entry point, guarded chains by
\* attribute and by item, invocation, and merge of the trees held
NextAll ==
  \/ \E t \in DOMAIN trees, attr \in {"test", "arr"} : Navigate(t, attr)
  \/ \E t \in DOMAIN trees, f \in {StrV("aweg")}, ty \in {NoType} : OnFail(t, f, ty, FALSE)
  \/ \E p \in DOMAIN proxies, attr \in {"test", "arr"} : GetAttr(p, attr)
  \/ \E p \in DOMAIN proxies, keys \in {<<"test", "blah">>} : GetItem(p, keys)
  \/ \E p \in DOMAIN proxies : Call(p, "None", "None")
  \/ \E ts \in ArgTuples(1), shadow \in BOOLEAN : Merge(ts, shadow)

SpecAll == Init /\ [][NextAll]_vars

\* ------------------------------------------------------------------ tomler: iter proxy
\* The array accessors exist in the tomler package only (tomlguard's first_of, all_of
\* and flatten_on raise NotImplementedError). TomlerBase.__getattr__ and __getitem__
\* read a table as TomlAccess_m does, so AccessGetAttr stands for both.

\* repr(v) in tomler
TomlerRepr(v) == ReprOf("Tomler", v)

\* TomlerBase.add_defaulted, called with a str index
TomlerAddDefaulted(reg, index, val, types) ==
  LET index_str == IF val.kind = "bool" THEN index \o " = " \o LowerBool(val) \o " # <" \o types \o ">"
                   ELSE index \o " = " \o TomlerRepr(val) \o " # <" \o types \o ">"
  IN SetAdd(reg, index_str)

IterKinds == {"first", "all", "flat", "match"}

\* isinstance(x, Iterable)
Iterable(x) == x.kind \in {"str", "list", "dict", "tuple", "GuardBase", "GuardList"}

\* TomlerProxy.__init__ then TomlerIterProxy.__init__ (its _match_type checks nothing),
\* for a kind that is a string; match holds the mapping when the kind is one
TomlerIterProxy(data, types, index, subindex, fallback, kind) ==
  LET self == [data |-> data,
               types |-> IF types = NoType THEN AnyT ELSE types,
               index |-> IF index = <<>> THEN <<ROOT>> ELSE index,
               subindex |-> subindex, fallback |-> fallback, kind |-> kind,
               match |-> NoneV, parent |-> 0]
  IN [status |-> IF kind \notin IterKinds THEN "TypeError"
                 ELSE IF Truthy(fallback) /\ ~Iterable(fallback) THEN "TypeError"
                 ELSE "ok",
      proxy |-> self]

\* the same constructor for a kind that is a dict: case dict() accepts it
TomlerIterProxyDict(data, types, index, subindex, fallback, kind) ==
  LET made == TomlerIterProxy(data, types, index, subindex, fallback, "match")
  IN [status |-> made.status,
      proxy |-> [made.proxy EXCEPT !.kind = "dict", !.match = kind]]

\* what a sequence pattern [*vals] binds: the elements of a list or tuple, an array of
\* tables as its trees; no elements for anything that is not a sequence
Elements(data) ==
  CASE data.kind = "GuardList" -> ElementTrees(data)
    [] data.kind \in {"list", "tuple"} -> [i \in DOMAIN data.items |-> data.items[i].val]
    [] OTHER -> <<>>

\* the patterns [] | (None,)
EmptyOrMarker(data) ==
  \/ data = TupleNone
  \/ data.kind \in {"list", "tuple", "GuardList"} /\ Len(data.items) = 0

\* the fallback match that ends _get_first
FirstFallback(self) ==
  CASE self.fallback = TupleNone -> Raise("TomlAccessError")
    [] self.fallback.kind = "none" -> Return(NoneV)
    [] OTHER -> Return(self.fallback)

\* TomlerIterProxy._get_first: val[0] of the first truthy element; tree[0] is
\* __getitem__ with a key that is neither tuple nor str, which returns the tree
_get_first(self) ==
  LET vals == IF EmptyOrMarker(self.data) THEN <<>> ELSE Elements(self.data)
      truthy == {i \in DOMAIN vals : Truthy(vals[i])}
  IN IF truthy = {} THEN FirstFallback(self)
     ELSE LET val == vals[CHOOSE i \in truthy : \A j \in truthy : i <= j]
          IN CASE val.kind = "GuardBase" -> Return(val)
               [] val.kind \in {"list", "tuple"} -> Return(val.items[1].val)
               [] val.kind = "dict" -> Raise("KeyError")
               [] val.kind \in {"int", "bool"} -> Raise("TypeError")

\* iter(val): a tree gives the (key, value) pairs of its table, a dict its keys, a
\* list or tuple its elements, a string of at most one character its characters
IterOf(val) ==
  CASE val.kind = "GuardBase" ->
         [i \in DOMAIN val.items |->
            Obj("tuple", 0, "", <<KV("", StrV(val.items[i].key)), KV("", val.items[i].val)>>, <<>>)]
    [] val.kind = "dict" -> [i \in DOMAIN val.items |-> StrV(val.items[i].key)]
    [] val.kind \in {"list", "tuple"} -> [i \in DOMAIN val.items |-> val.items[i].val]
    [] val.kind = "str" /\ val.s = "" -> <<>>
    [] val.kind = "str" /\ Len(val.s) = 1 -> <<val>>

RECURSIVE Extend(_)
\* result += val for each val
Extend(vals) == IF vals = <<>> THEN <<>> ELSE IterOf(Head(vals)) \o Extend(Tail(vals))

RECURSIVE ExtendOrAppend(_)
\* mutant's loop: a value that cannot be iterated joins the result as one item
ExtendOrAppend(vals) ==
  IF vals = <<>> THEN <<>>
  ELSE (IF Iterable(Head(vals)) THEN IterOf(Head(vals)) ELSE <<Head(vals)>>)
         \o ExtendOrAppend(Tail(vals))

\* mutant: result += val for a list, result.append(val) for anything else
_get_all_Append(self) ==
  LET vals == Elements(self.data)
  IN CASE EmptyOrMarker(self.data) /\ self.fallback = TupleNone -> Raise("TomlAccessError")
       [] EmptyOrMarker(self.data) /\ self.fallback # TupleNone -> Return(self.fallback)
       [] ~EmptyOrMarker(self.data) /\ vals # <<>> -> Return(ListV(ExtendOrAppend(vals)))
       [] OTHER -> Raise("TomlAccessError")

\* TomlerIterProxy._get_all
_get_all(self) ==
  LET vals == Elements(self.data)
  IN CASE EmptyOrMarker(self.data) /\ self.fallback = TupleNone -> Raise("TomlAccessError")
       [] EmptyOrMarker(self.data) /\ self.fallback # TupleNone -> Return(self.fallback)
       [] ~EmptyOrMarker(self.data) /\ vals # <<>> ->
            IF \E i \in DOMAIN vals : ~Iterable(vals[i])
            THEN Raise("TypeError")
            ELSE Return(ListV(Extend(vals)))
       [] OTHER -> Raise("TomlAccessError")

\* TomlerIterProxy._get_flat
_get_flat(self) ==
  LET vals == IF EmptyOrMarker(self.data) THEN <<>> ELSE Elements(self.data)
  IN IF vals # <<>>
     THEN IF \A i \in DOMAIN vals : vals[i].kind \in {"GuardBase", "dict"}
          THEN Return(ChainMap([i \in DOMAIN vals |-> ToDict(vals[i])]))
          ELSE Raise("TypeError")
     ELSE CASE self.fallback = TupleNone -> Raise("TomlAccessError")
            [] self.fallback.kind = "none" -> Return(NoneV)
            [] self.fallback.kind = "dict" -> Return(self.fallback)
            [] OTHER -> Raise("TomlAccessError")

\* what `for entry in self._data` visits; nothing when the data cannot be iterated
Entries_get_match(data) ==
  IF data.kind = "GuardList" THEN ElementTrees(data)
  ELSE IF Iterable(data) THEN IterOf(data)
  ELSE <<>>

RECURSIVE WalkEntry(_, _)
\* entry = getattr(entry, x) for each x of the sub-index; a value that is not a tree
\* has no such attribute
WalkEntry(entry, subindex) ==
  IF subindex = <<>> THEN Return(entry)
  ELSE IF entry.kind # "GuardBase" THEN Raise("AttributeError")
  ELSE LET got == AccessGetAttr(entry, Head(subindex))
       IN IF got.status # "ok" THEN got ELSE WalkEntry(got.val, Tail(subindex))

RECURSIVE AllEqual(_, _)
\* all(getattr(entry, x) == y for x, y in kind.items()): it stops at the first pair
\* that differs; val is the truth value
AllEqual(entry, pairs) ==
  IF pairs = <<>> THEN Return(BoolV(TRUE))
  ELSE IF entry.kind # "GuardBase" THEN Raise("AttributeError")
  ELSE LET got == AccessGetAttr(entry, Head(pairs).key)
       IN IF got.status # "ok" THEN got
          ELSE IF got.val # Head(pairs).val THEN Return(BoolV(FALSE))
          ELSE AllEqual(entry, Tail(pairs))

RECURSIVE MatchLoop(_, _)
\* the loop of _get_match: TomlAccessError moves on to the next entry, any other
\* error leaves the loop
MatchLoop(self, entries) ==
  IF entries = <<>> THEN Raise("TomlAccessError")
  ELSE LET walked == WalkEntry(Head(entries), self.subindex)
           equal == AllEqual(walked.val, self.match.items)
       IN CASE walked.status = "TomlAccessError" -> MatchLoop(self, Tail(entries))
            [] walked.status \notin {"ok", "TomlAccessError"} -> Raise(walked.status)
            [] walked.status = "ok" /\ equal.status = "TomlAccessError" ->
                 MatchLoop(self, Tail(entries))
            [] walked.status = "ok" /\ equal.status \notin {"ok", "TomlAccessError"} ->
                 Raise(equal.status)
            [] walked.status = "ok" /\ equal.status = "ok" ->
                 IF Truthy(equal.val) THEN Return(walked.val)
                 ELSE MatchLoop(self, Tail(entries))

\* TomlerIterProxy._get_match
_get_match(self) ==
  IF ~Iterable(self.data) THEN Raise("TypeError")
  ELSE MatchLoop(self, Entries_get_match(self.data))

\* TomlerProxy._notify
TomlerNotify(self, reg) ==
  CASE self.data.kind = "GuardBase" -> reg
    [] self.data.kind # "GuardBase" /\ self.index = <<>> -> reg
    [] self.data = TupleNone /\ self.index # <<>> ->
         TomlerAddDefaulted(reg, Join(self.index, "."), self.fallback, _types_str(self))
    [] OTHER ->
         TomlerAddDefaulted(reg, Join(self.index, "."), self.data, _types_str(self))

\* TomlerIterProxy.__call__ without a wrapper: the registry after it and what it
\* returns or raises
IterProxyCall(self, reg) ==
  [reg |-> TomlerNotify(self, reg),
   out |-> CASE self.kind = "first" -> _get_first(self)
             [] self.kind = "all" -> _get_all(self)
             [] self.kind = "flat" -> _get_flat(self)
             [] self.kind = "dict" -> _get_match(self)
             [] OTHER -> Raise("TypeError")]

\* mutant: the accessed name goes onto the base index
IterInject_BaseIndex(ps, id, val, attr, clear) ==
  LET self == ps[id]
      v == IF clear THEN NoneV ELSE IF Truthy(val) THEN val ELSE self.data
      made == TomlerIterProxy(v, self.types, Append(self.index, attr), self.subindex,
                              self.fallback, self.kind).proxy
  IN Append(ps, [made EXCEPT !.parent = id])

\* TomlerIterProxy._inject, on the pool of live proxies
IterInject(ps, id, val, attr, clear) ==
  LET self == ps[id]
      v == IF clear THEN NoneV ELSE IF Truthy(val) THEN val ELSE self.data
      made == IF self.kind = "dict"
              THEN TomlerIterProxyDict(v, self.types, self.index,
                                       Append(self.subindex, attr), self.fallback,
                                       self.match).proxy
              ELSE TomlerIterProxy(v, self.types, self.index, Append(self.subindex, attr),
                                   self.fallback, self.kind).proxy
  IN Append(ps, [made EXCEPT !.parent = id])

\* TomlerProxy.__getattr__, which TomlerIterProxy inherits
IterProxyGetAttr(ps, id, attr) ==
  LET self == ps[id]
  IN CASE self.data.kind = "GuardBase" ->
            LET got == AccessGetAttr(self.data, attr)
            IN IF got.status = "ok"
               THEN IterInject(ps, id, got.val, attr, FALSE)
               ELSE IterInject(ps, id, NoneV, attr, TRUE)
       [] self.data.kind = "none" -> IterInject(ps, id, NoneV, attr, TRUE)
       [] OTHER -> IterInject(ps, id, NoneV, attr, FALSE)

RECURSIVE IterProxyGetItem(_, _, _)
\* TomlerProxy.__getitem__ with a tuple of keys: curr.__getattr__(key) for each key;
\* the proxy it returns
IterProxyGetItem(ps, id, keys) ==
  IF keys = <<>> THEN ps[id]
  ELSE LET next == IterProxyGetAttr(ps, id, Head(keys))
       IN IterProxyGetItem(next, Len(next), Tail(keys))

NotAtEntry(self) == self.index # <<ROOT>>

\* ProxyEntryMixin.first_of
first_of(self, fallback, types) ==
  IF NotAtEntry(self)
  THEN [status |-> "TomlAccessError", proxy |-> NoneV]
  ELSE TomlerIterProxy(self, types, <<>>, <<>>, fallback, "any")

\* ProxyEntryMixin.all_of
all_of(self, fallback, types) ==
  IF NotAtEntry(self)
  THEN [status |-> "TomlAccessError", proxy |-> NoneV]
  ELSE TomlerIterProxy(self, NoType, self.index, <<>>, fallback, "all")

\* ProxyEntryMixin.flatten_on
flatten_on(self, fallback) ==
  IF fallback.kind \notin {"none", "dict"}
  THEN [status |-> "TypeError", proxy |-> NoneV]
  ELSE IF NotAtEntry(self)
  THEN [status |-> "TomlAccessError", proxy |-> NoneV]
  ELSE TomlerIterProxy(self, NoType, self.index, <<>>, fallback, "flat")

\* ProxyEntryMixin.match_on: self._table()[:] subscripts a dict with a slice, which
\* raises TypeError where a slice cannot be hashed and KeyError where it can; err is
\* the one the interpreter at hand raises
match_on(self, kwargs, err) == [status |-> err, proxy |-> NoneV]

\* documents with arrays: an array of tables whose first element is empty, an empty
\* array, an array of tables with disjoint keys, one of them falsy under an
\* underscored name
IterDoc1 ==
  DictV(<< KV("arr", ListV(<< DictV(<<>>), DictV(<< KV("blah", StrV("v")) >>) >>)),
           KV("blah", ListV(<<>>)) >>)
IterDoc2 ==
  DictV(<< KV("arr", ListV(<< DictV(<< KV("test", IntV(1)) >>),
                              DictV(<< KV("blah", IntV(2)), KV("a_b", IntV(0)) >>) >>)) >>)
IterDocs == {IterDoc1, IterDoc2}

\* fallbacks: none given, None, lists, a dict, a value that is not iterable
IterFallbacks == {TupleNone, NoneV, ListV(<<>>), DictV(<<>>), IntV(5)}

\* the names the chains access
IterNames == {"arr", "blah", "a_b"}

\* what a TomlerIterProxy is built on directly: the tree, or one of its arrays
IterData ==
  {trees[1].obj} \cup
  {AccessGetAttr(trees[1].obj, n).val :
     n \in {m \in IterNames : AccessGetAttr(trees[1].obj, m).status = "ok"}}

InitIter ==
  /\ doc \in IterDocs
  /\ trees = <<Tree(GuardBase(doc, <<>>), 0, 0)>>
  /\ proxies = <<>>
  /\ defaulted = EmptyBag
  /\ last = Outcome("init", 0, "ok", NoneV, 0, EmptyBag, "None", "None")

\* an entry method or the constructor has answered: the proxy joins the pool
Enter(op, t, got, fallback) ==
  /\ got.status = "ok" => Len(proxies) < MaxProxies /\ Entries(proxies) < MaxEntries
  /\ proxies' = IF got.status = "ok" THEN Append(proxies, got.proxy) ELSE proxies
  /\ last' = Outcome(op, t, got.status, fallback,
                     IF got.status = "ok" THEN Len(proxies) + 1 ELSE 0, defaulted,
                     "None", "None")
  /\ UNCHANGED <<doc, trees, defaulted>>

\* tree.first_of(fallback, types)
FirstOf(t, fallback, types) == Enter("first_of", t, first_of(trees[t].obj, fallback, types), fallback)

\* tree.all_of(fallback)
AllOf(t, fallback) == Enter("all_of", t, all_of(trees[t].obj, fallback, NoType), fallback)

\* tree.flatten_on(fallback)
FlattenOn(t, fallback) == Enter("flatten_on", t, flatten_on(trees[t].obj, fallback), fallback)

\* TomlerIterProxy(data, fallback=fallback, kind=kind)
NewIter(data, fallback, kind) ==
  Enter("new_iter", 0, TomlerIterProxy(data, NoType, <<>>, <<>>, fallback, kind), fallback)

\* proxy.attr on a TomlerIterProxy
IterGetAttr(p, attr) ==
  /\ Len(proxies) < MaxProxies
  /\ proxies' = IterProxyGetAttr(proxies, p, attr)
  /\ last' = OutcomeAt(Outcome("iter_getattr", p, "ok", NoneV, Len(proxies) + 1, defaulted,
                               "None", "None"), <<attr>>)
  /\ UNCHANGED <<doc, trees, defaulted>>

\* the tuples of keys the chains index with
IterKeyTuples == {<<"arr", "blah">>, <<"arr", "a_b">>}

\* proxy[keys] on a TomlerIterProxy; the proxies made on the way are not kept
IterGetItem(p, keys) ==
  /\ Len(proxies) < MaxProxies
  /\ proxies' = Append(proxies, [IterProxyGetItem(proxies, p, keys) EXCEPT !.parent = p])
  /\ last' = OutcomeAt(Outcome("iter_getitem", p, "ok", NoneV, Len(proxies) + 1, defaulted,
                               "None", "None"), keys)
  /\ UNCHANGED <<doc, trees, defaulted>>

\* proxy() on a TomlerIterProxy
IterCall(p) ==
  LET got == IterProxyCall(proxies[p], defaulted)
  IN /\ defaulted' = got.reg
     /\ last' = Outcome("iter_call", p, got.out.status, got.out.val, 0, defaulted,
                        "None", "None")
     /\ UNCHANGED <<doc, trees, proxies>>

NextIter ==
  \/ \E t \in DOMAIN trees, fallback \in IterFallbacks, types \in {NoType} :
       FirstOf(t, fallback, types)
  \/ \E t \in DOMAIN trees, fallback \in IterFallbacks : AllOf(t, fallback)
  \/ \E t \in DOMAIN trees, fallback \in IterFallbacks : FlattenOn(t, fallback)
  \/ \E data \in IterData, fallback \in IterFallbacks, kind \in IterKinds :
       NewIter(data, fallback, kind)
  \/ \E p \in DOMAIN proxies, attr \in IterNames : IterGetAttr(p, attr)
  \/ \E p \in DOMAIN proxies : IterCall(p)

SpecIter == InitIter /\ [][NextIter]_vars

\* documents whose array of tables defines a key in two elements
FlatDoc1 ==
  DictV(<< KV("arr", ListV(<< DictV(<< KV("test", IntV(1)), KV("blah", IntV(2)) >>),
                              DictV(<< KV("test", IntV(3)) >>) >>)) >>)
FlatDoc2 ==
  DictV(<< KV("arr", ListV(<< DictV(<< KV("a_b", IntV(0)) >>),
                              DictV(<< KV("a_b", IntV(5)), KV("blah", StrV("v")) >>) >>)),
           KV("blah", ListV(<<>>)) >>)

InitFlat ==
  /\ doc \in {FlatDoc1, FlatDoc2}
  /\ trees = <<Tree(GuardBase(doc, <<>>), 0, 0)>>
  /\ proxies = <<>>
  /\ defaulted = EmptyBag
  /\ last = Outcome("init", 0, "ok", NoneV, 0, EmptyBag, "None", "None")

\* chains of kind "flat", entered through flatten_on or built directly
NextFlat ==
  \/ \E t \in DOMAIN trees, fallback \in IterFallbacks : FlattenOn(t, fallback)
  \/ \E data \in IterData, fallback \in {NoneV, TupleNone} : NewIter(data, fallback, "flat")
  \/ \E p \in DOMAIN proxies, attr \in IterNames : IterGetAttr(p, attr)
  \/ \E p \in DOMAIN proxies : IterCall(p)

SpecFlat == InitFlat /\ [][NextFlat]_vars

\* documents with arrays of arrays, an array of numbers and an array of tables
AllDoc1 ==
  DictV(<< KV("arr", ListV(<< ListV(<< IntV(5), IntV(10) >>), ListV(<< StrV("v") >>) >>)),
           KV("blah", ListV(<< IntV(5), IntV(10) >>)) >>)
AllDoc2 ==
  DictV(<< KV("arr", ListV(<< DictV(<< KV("test", IntV(1)) >>),
                              DictV(<< KV("blah", IntV(2)), KV("a_b", IntV(0)) >>) >>)),
           KV("blah", ListV(<< ListV(<< IntV(1) >>), ListV(<<>>), IntV(7) >>)) >>)

InitAll ==
  /\ doc \in {AllDoc1, AllDoc2}
  /\ trees = <<Tree(GuardBase(doc, <<>>), 0, 0)>>
  /\ proxies = <<>>
  /\ defaulted = EmptyBag
  /\ last = Outcome("init", 0, "ok", NoneV, 0, EmptyBag, "None", "None")

\* chains of kind "all", entered through all_of or built directly
NextAllOf ==
  \/ \E t \in DOMAIN trees, fallback \in IterFallbacks : AllOf(t, fallback)
  \/ \E data \in IterData, fallback \in {NoneV, TupleNone} : NewIter(data, fallback, "all")
  \/ \E p \in DOMAIN proxies, attr \in IterNames : IterGetAttr(p, attr)
  \/ \E p \in DOMAIN proxies : IterCall(p)

SpecAllOf == InitAll /\ [][NextAllOf]_vars

\* the keyword arguments match_on is given, and the dicts given as kind
MatchMaps == {DictV(<< KV("blah", IntV(2)) >>), DictV(<< KV("test", IntV(1)) >>),
              DictV(<< KV("blah", StrV("v")), KV("a_b", IntV(0)) >>), DictV(<<>>)}

\* tree.match_on(**kwargs)
MatchOn(t, kwargs, err) == Enter("match_on", t, match_on(trees[t].obj, kwargs, err), kwargs)

\* TomlerIterProxy(data, kind=kwargs)
NewMatch(data, kwargs) ==
  Enter("new_match", 0, TomlerIterProxyDict(data, NoType, <<>>, <<>>, NoneV, kwargs), kwargs)

\* chains of a kind that is a dict, and the entry method meant to build them
NextMatch ==
  \/ \E t \in DOMAIN trees, kwargs \in MatchMaps, err \in {"TypeError", "KeyError"} :
       MatchOn(t, kwargs, err)
  \/ \E data \in IterData, kwargs \in MatchMaps : NewMatch(data, kwargs)
  \/ \E p \in DOMAIN proxies, attr \in IterNames : IterGetAttr(p, attr)
  \/ \E p \in DOMAIN proxies : IterCall(p)

SpecMatch == InitIter /\ [][NextMatch]_vars

\* building chains on a TomlerIterProxy, by attribute and by item, without invoking
NextIterIndex ==
  \/ \E data \in IterData, fallback \in {NoneV, ListV(<<>>)}, kind \in {"first", "all"} :
       NewIter(data, fallback, kind)
  \/ \E p \in DOMAIN proxies, attr \in IterNames : IterGetAttr(p, attr)
  \/ \E p \in DOMAIN proxies, keys \in IterKeyTuples : IterGetItem(p, keys)

SpecIterIndex == InitIter /\ [][NextIterIndex]_vars

\* TomlGuardFailureProxy(tree, types=types): the constructor with its default
\* fallback, the 'no value' marker, which is how an accessor has no fallback
NewProxy(t, types) ==
  LET got == FailureProxy(trees[t].obj, types, <<>>, NullFallback)
  IN /\ got.status = "ok" => Len(proxies) < MaxProxies /\ Entries(proxies) < MaxEntries
     /\ proxies' = IF got.status = "ok" THEN Append(proxies, got.proxy) ELSE proxies
     /\ last' = Outcome("new", t, got.status, NullFallback,
                        IF got.status = "ok" THEN Len(proxies) + 1 ELSE 0, defaulted,
                        types.name, "None")
     /\ UNCHANGED <<doc, trees, defaulted>>

\* guarded chains that were given no fallback
NextNoFallback ==
  \/ \E t \in DOMAIN trees, ty \in TypeArgs : NewProxy(t, ty)
  \/ \E p \in DOMAIN proxies, attr \in Names : GetAttr(p, attr)
  \/ \E p \in DOMAIN proxies, keys \in KeyTuples : GetItem(p, keys)
  \/ \E p \in DOMAIN proxies, w \in WrapperArgs : Call(p, w[1], w[2])

SpecNoFallback == Init /\ [][NextNoFallback]_vars

\* ------------------------------------------------------------------ claims
\* What the claims speak of, stated on the document alone.

RECURSIVE PlainLookup(_, _)
\* Indexing the plain nested mapping with the keys of P one by one, a name standing
\* also for its hyphenated key: whether every key was found, the value reached, and
\* the value at which the walk stopped
PlainLookup(v, P) ==
  IF P = <<>> THEN [found |-> TRUE, val |-> v, stop |-> v]
  ELSE IF v.kind = "dict" /\ HasKey(v, Head(P)) THEN PlainLookup(DictGet(v, Head(P)), Tail(P))
  ELSE IF v.kind = "dict" /\ HasKey(v, Hyphenated(Head(P)))
       THEN PlainLookup(DictGet(v, Hyphenated(Head(P))), Tail(P))
  ELSE [found |-> FALSE, val |-> NoneV, stop |-> v]

RECURSIVE FalsyUnderscored(_, _)
\* whether that walk follows an underscored name that the mapping holds with a falsy
\* value (false, 0, "", an empty table or list)
FalsyUnderscored(v, P) ==
  IF P = <<>> \/ v.kind # "dict" THEN FALSE
  ELSE IF HasKey(v, Head(P))
       THEN \/ Hyphenated(Head(P)) # Head(P) /\ ~Truthy(DictGet(v, Head(P)))
            \/ FalsyUnderscored(DictGet(v, Head(P)), Tail(P))
  ELSE IF HasKey(v, Hyphenated(Head(P)))
       THEN FalsyUnderscored(DictGet(v, Hyphenated(Head(P))), Tail(P))
  ELSE FALSE

RECURSIVE Plain(_)
\* a value as Python's == sees it: a tree equals the mapping it wraps, wherever in the
\* value it stands
Plain(v) ==
  CASE v.kind = "GuardBase" -> DictV(v.items)
    [] v.kind = "GuardList" -> Obj("list", 0, "", v.items, <<>>)
    [] v.kind \in {"dict", "list"} ->
         Obj(v.kind, 0, "", [i \in DOMAIN v.items |-> KV(v.items[i].key, Plain(v.items[i].val))],
             <<>>)
    [] OTHER -> v

\* the proxy the last operation was called on, and the one it made
Receiver == proxies[last.self]
Made == proxies[last.made]
Called == last.op = "call"
Unwrapped == last.w = "None" /\ last.fw = "None"
\* the path of the receiver's chain, walked in the document
Walk == PlainLookup(doc, Receiver.path)
\* the receiver's path misses in a table, no underscored name with a falsy value on
\* the way
MissInTable ==
  ~Walk.found /\ Walk.stop.kind = "dict" /\ ~FalsyUnderscored(doc, Receiver.path)
\* the same, the miss being in a table or in a null value
MissInTableOrNull ==
  ~Walk.found /\ Walk.stop.kind \in {"dict", "none"} /\ ~FalsyUnderscored(doc, Receiver.path)

\* the registry entry of a path, a recorded value and a declared type
EntryFor(path, val, types) ==
  Join(<<ROOT>> \o path, ".") \o " = "
    \o (IF val.kind = "bool" THEN LowerBool(val) ELSE Repr(val))
    \o " # <" \o types.name \o ">"

\* C1 as claimed: invoking on_fail(F).P with no declared type, for any path P not
\* present in the mapping (a path running on past a leaf value included), returns
\* exactly F and does not raise.
C1_AnyAbsentPathGivesFallback ==
  (Called /\ Unwrapped /\ Receiver.types = AnyT /\ ~Walk.found)
    => (last.status = "ok" /\ last.val = Receiver.fallback)

\* C1 as amended: invoking on_fail(F).P with no declared type, for a path P whose
\* first key that cannot be followed is looked up in a table or in a null value, and
\* which follows no underscored name held with a falsy value, returns exactly F and
\* does not raise.
C1_MissInTableGivesFallback ==
  (Called /\ Unwrapped /\ Receiver.types = AnyT /\ MissInTableOrNull)
    => (last.status = "ok" /\ last.val = Receiver.fallback)

\* a chain that missed two names deep, invoked with no wrappers
C1_Witness ==
  /\ Called /\ Unwrapped /\ Receiver.types = AnyT
  /\ MissInTable /\ Len(Receiver.path) >= 2
  /\ last.status = "ok" /\ last.val = Receiver.fallback /\ last.val = StrV("aweg")

\* C2 as claimed: invoking on_fail(F).P with no declared type, for a path P present in
\* the mapping with a value v that is not null, never raises and returns v (a table
\* as a plain mapping), whatever F is: also when v is false, 0 or the empty string
\* and when keys contain underscores.
C2_PresentPathGivesValue ==
  (Called /\ Unwrapped /\ Receiver.types = AnyT /\ Walk.found /\ Walk.val.kind # "none")
    => (last.status = "ok" /\ Plain(last.val) = Walk.val)

\* C3: once a step has left a chain's target as the 'no value' marker, every accessor
\* derived from it has the 'no value' marker as its target too.
C3_StickyFallback ==
  \A p \in DOMAIN proxies :
    /\ proxies[p].missed => proxies[p].data = NullFallback
    /\ (proxies[p].parent # 0 /\ proxies[proxies[p].parent].data = NullFallback)
         => proxies[p].data = NullFallback

\* a chain that missed and then asked for a name the document root does hold
C3_Witness ==
  \E p \in DOMAIN proxies :
    /\ proxies[p].parent # 0
    /\ proxies[proxies[p].parent].data = NullFallback
    /\ HasKey(doc, proxies[p].via[Len(proxies[p].via)])
    /\ proxies[p].data = NullFallback

\* the accessor a chain of its own, never sharing a step with another, would end in
FreshChain(entry, types, fallback, path) ==
  LET all == FoldGetAttr(<<FailureProxy(entry, types, <<>>, fallback).proxy>>, 1, path)
  IN all[Len(all)]

\* C4: an access returns a new accessor and leaves the receiver as it was: whatever
\* accesses were made from a parent, each child's index is the parent's index plus
\* its own names, its fallback and declared type are the parent's, and invoking it
\* gives what a chain of its own would give.
C4_ChildrenIndependent ==
  /\ \A p \in DOMAIN proxies :
       LET c == proxies[p]
           fresh == FreshChain(c.entry, c.types, c.fallback, c.path)
       IN /\ c.index = <<ROOT>> \o c.path
          /\ c.data = fresh.data
          /\ c.parent = 0 => (c.path = <<>> /\ c.data = c.entry)
          /\ c.parent # 0 =>
               LET q == proxies[c.parent]
               IN /\ c.index = q.index \o c.via
                  /\ c.path = q.path \o c.via
                  /\ c.fallback = q.fallback
                  /\ c.types = q.types
  /\ Called =>
       LET c == Receiver
           out == CallValue(FreshChain(c.entry, c.types, c.fallback, c.path),
                            last.w, last.fw)
       IN last.status = out.status /\ last.val = out.val

\* two children of one parent, a hit and a miss, and one of them invoked
C4_Witness ==
  /\ Called /\ Receiver.parent # 0
  /\ \E a \in DOMAIN proxies, b \in DOMAIN proxies :
       /\ a # b
       /\ proxies[a].parent = proxies[b].parent /\ proxies[a].parent # 0
       /\ proxies[a].data = NullFallback /\ proxies[b].data # NullFallback
       /\ last.self \in {a, b}

\* the entry the receiver's chain is to leave in the registry when its fallback is used
FallbackEntry == EntryFor(Receiver.path, Receiver.fallback, Receiver.types)

\* C5 as claimed: invoking on_fail(F, T).P for a path P absent from the mapping, on a
\* registry without that entry, leaves report_defaulted() with exactly one entry
\* more: the full attempted path, the literal of F and the name of T ('Any' if none).
C5_AnyAbsentPathRecordsFallback ==
  (Called /\ ~Walk.found /\ ~BagIn(FallbackEntry, last.before))
    => report_defaulted(defaulted) = last.before (+) SetToBag({FallbackEntry})

\* C5 as amended: the same, for a path P whose first key that cannot be followed is
\* looked up in a table, and which follows no underscored name held with a falsy
\* value, so that the chain ends in the 'no value' marker.
C5_MissInTableRecordsFallback ==
  (Called /\ MissInTable /\ ~BagIn(FallbackEntry, last.before))
    => report_defaulted(defaulted) = last.before (+) SetToBag({FallbackEntry})

\* a typed chain that missed two names deep, invoked on a registry that held another
\* entry already
C5_Witness ==
  /\ Called /\ MissInTable /\ Len(Receiver.path) >= 2
  /\ Receiver.types = StrT /\ Receiver.fallback = StrV("aweg")
  /\ last.before # EmptyBag /\ ~BagIn(FallbackEntry, last.before)
  /\ BagIn("<root>.blah.test = 'aweg' # <str>", defaulted)
  /\ FallbackEntry = "<root>.blah.test = 'aweg' # <str>"

\* C6 as claimed: invoking an accessor whose chain resolved to a real value, a
\* sub-tree or a leaf found in the document, leaves the registry as it was.
C6_RealValueRecordsNothing ==
  (Called /\ Walk.found /\ Walk.val.kind # "none"
     /\ Receiver.data.kind \notin {"NullFallback", "none"})
    => defaulted = last.before

\* C7: however often a missing-path chain is invoked, and whatever else is done in
\* between, report_defaulted() holds exactly one entry for it; no entry is ever held
\* twice.
C7_OneEntryPerDefault ==
  /\ \A e \in BagToSet(defaulted) : CopiesIn(e, report_defaulted(defaulted)) = 1
  /\ (Called /\ Receiver.data = NullFallback)
       => CopiesIn(FallbackEntry, report_defaulted(defaulted)) = 1

\* the same missing-path chain invoked a second time, another entry recorded between
C7_Witness ==
  /\ Called /\ Receiver.data = NullFallback
  /\ BagIn(FallbackEntry, last.before)
  /\ BagCardinality(last.before) >= 2
  /\ CopiesIn(FallbackEntry, defaulted) = 1

\* the tree on_fail was last called on, and the declared type it was given
Entered == last.op = "on_fail"
EntryTree == trees[last.self]
DeclaredType == CHOOSE ty \in TypeArgs : ty.name = last.w

\* C8 as claimed: on_fail raises the not-at-entry error on every tree obtained from
\* the document root by one or more navigation steps, the element trees of an array
\* of tables included.
C8_AnyNavigatedTreeRefused ==
  (Entered /\ last.fw = "None" /\ EntryTree.steps >= 1)
    => last.status = "TomlAccessError"

\* C8 as amended: on_fail, called without non_root, raises the not-at-entry error
\* exactly when the tree's index is not the root sentinel alone, which is so for
\* every tree reached through at least one table; the element trees of an array of
\* tables carry the index of the tree the array was read from, and those of an array
\* held by the document root are accepted.
C8_NonRootIndexRefused ==
  /\ (Entered /\ last.fw = "None")
       => (last.status = "TomlAccessError" <=> EntryTree.obj.index # <<ROOT>>)
  /\ \A i \in DOMAIN trees :
       /\ trees[i].table_steps >= 1 => trees[i].obj.index # <<ROOT>>
       /\ trees[i].table_steps = 0 => trees[i].obj.index = <<ROOT>>

\* on_fail refused on a tree one table below the root, and on an element tree of an
\* array held by such a table
C8_Witness ==
  /\ Entered /\ last.fw = "None" /\ last.status = "TomlAccessError"
  /\ EntryTree.steps = 2 /\ EntryTree.table_steps = 1

\* C9 as claimed: on_fail(F, T), called at the document root, raises the
\* type-mismatch error at construction for every fallback value F whose runtime type
\* does not satisfy T, falsy fallbacks included.
C9_MismatchedFallbackRefused ==
  (Entered /\ EntryTree.obj.index = <<ROOT>> /\ DeclaredType # NoType
     /\ last.val.kind # "none" /\ ~isinstance(last.val, DeclaredType))
    => last.status = "TypeError"

\* the value an invocation is to end with: the fallback (None as it is, any other
\* through the fallback wrapper) when the target is 'no value' or null, else the
\* target (a tree as a plain mapping, anything else as it is) through the value wrapper
FinalValue(c, w, fw) ==
  IF c.data.kind \in {"NullFallback", "none"}
  THEN IF c.fallback.kind = "none" THEN NoneV ELSE ApplyWrapper(fw, c.fallback)
  ELSE ApplyWrapper(w, IF c.data.kind = "GuardBase" THEN AsDict(c.data) ELSE c.data)

HoldsNull ==
  /\ Receiver.path # <<>>
  /\ Walk.found /\ Walk.val.kind = "none"
  /\ ~FalsyUnderscored(doc, SubSeq(Receiver.path, 1, Len(Receiver.path) - 1))
  /\ Hyphenated(Receiver.path[Len(Receiver.path)]) = Receiver.path[Len(Receiver.path)]

C12_NoFallbackRaises ==
  (Called /\ Receiver.fallback = NullFallback /\ (MissInTable \/ HoldsNull))
    => last.status = "ValueError"

RECURSIVE LiteralLookup(_, _)
\* indexing the plain nested mapping with the keys of P as they are, step by step
LiteralLookup(v, P) ==
  IF P = <<>> THEN [found |-> TRUE, val |-> v]
  ELSE IF v.kind = "dict" /\ HasKey(v, Head(P)) THEN LiteralLookup(DictGet(v, Head(P)), Tail(P))
  ELSE [found |-> FALSE, val |-> NoneV]

\* the tree the last operation was called on, a read of it, and its table as a plain
\* mapping
ReadTree == trees[last.self]
Read == last.op \in {"navigate", "index"}
ReadTable == DictV(ReadTree.obj.items)

\* C13 as claimed: for every key sequence P present in the mapping, reading tree[P], or
\* the attribute tree.P, yields a value equal to the one plain indexing with P gives;
\* leaf values of any type, keys with or without underscores.
C13_ReadEqualsPlainIndexing ==
  (Read /\ ReadTree.attrs = {} /\ LiteralLookup(ReadTable, last.keys).found)
    => (last.status = "ok" /\ Plain(last.val) = LiteralLookup(ReadTable, last.keys).val)

\* C14: tree.name raises the access error exactly when neither name nor name with its
\* underscores replaced by hyphens is a key of the tree's table; in every other case
\* it returns.
C14_RaisesIffNeitherKey ==
  (last.op = "navigate" /\ ~\E kv \in ReadTree.attrs : kv.key = last.keys[1])
    => IF ~HasKey(ReadTable, last.keys[1]) /\ ~HasKey(ReadTable, Hyphenated(last.keys[1]))
       THEN last.status = "TomlAccessError"
       ELSE last.status = "ok"

\* an underscored name read from a table that holds the hyphenated key only
C14_Witness ==
  /\ last.op = "navigate" /\ ReadTree.attrs = {}
  /\ ~HasKey(ReadTable, last.keys[1]) /\ HasKey(ReadTable, Hyphenated(last.keys[1]))
  /\ last.status = "ok" /\ last.val.kind = "GuardBase"

\* C15: on a tree constructed without the mutable flag an attribute assignment raises
\* TypeError and changes nothing: the tree, its table and its index are as before, and
\* so is the result of every read.
C15_ImmutableAssignmentRefused ==
  [][(last'.op = "setattr" /\ ~trees[last'.self].mutable)
       => /\ last'.status = "TypeError"
          /\ trees' = trees
          /\ \A attr \in Names :
               TreeGetAttr(trees'[last'.self], attr) = TreeGetAttr(trees[last'.self], attr)
          /\ \A keys \in IndexKeys :
               AccessGetItem(trees'[last'.self].obj, keys)
                 = AccessGetItem(trees[last'.self].obj, keys)]_vars

\* an assignment refused on a tree that navigation returned
C15_Witness ==
  /\ last.op = "setattr" /\ last.status = "TypeError"
  /\ ~ReadTree.mutable /\ last.self >= 2 /\ ReadTree.obj.index # <<ROOT>>

\* the arguments of the last merge, and their tables as plain mappings
Merged == last.op = "merge"
MergeArg(i) == trees[last.keys[i]].obj
ArgTable(i) == DictV(MergeArg(i).items)
SharedKey ==
  \E i \in DOMAIN last.keys, j \in DOMAIN last.keys :
    i < j /\ Keys(ArgTable(i)) \cap Keys(ArgTable(j)) # {}

\* C16: merge without shadow raises the key-conflict error if and only if some
\* top-level key occurs in at least two of the arguments, keys below the top level
\* never being compared; when it raises no tree is produced, and the arguments are
\* left as they were by every merge.
C16_ConflictIffSharedTopKey ==
  [][(last'.op = "merge")
       => /\ trees' = trees
          /\ last'.w = "None" =>
               LET shared == \E i \in DOMAIN last'.keys, j \in DOMAIN last'.keys :
                               /\ i < j
                               /\ Keys(trees[last'.keys[i]].obj)
                                    \cap Keys(trees[last'.keys[j]].obj) # {}
               IN IF shared
                  THEN last'.status = "KeyError" /\ last'.val = NoneV
                  ELSE last'.status = "ok" /\ last'.val.kind = "GuardBase"]_vars

\* two arguments that share a key only below the top level, merged without conflict
C16_Witness ==
  /\ Merged /\ last.w = "None" /\ last.status = "ok" /\ Len(last.keys) = 2
  /\ ~SharedKey
  /\ \E i \in DOMAIN ArgTable(2).items :
       /\ ArgTable(2).items[i].val.kind = "dict"
       /\ Keys(ArgTable(2).items[i].val) \cap Keys(ArgTable(1)) # {}

\* C17 as claimed: merge with shadow never raises and returns a tree whose top-level
\* keys are the union of the arguments' keys, every key with the value it has in the
\* earliest argument that holds it, for any number of arguments.
C17_ShadowFirstWins ==
  (Merged /\ last.w = "shadow")
    => /\ last.status = "ok"
       /\ Keys(last.val) = UNION {Keys(ArgTable(i)) : i \in DOMAIN last.keys}
       /\ \A k \in Keys(last.val) :
            LET first == CHOOSE i \in DOMAIN last.keys :
                           /\ HasKey(ArgTable(i), k)
                           /\ \A j \in 1..(i - 1) : ~HasKey(ArgTable(j), k)
            IN Plain(DictGet(last.val, k)) = DictGet(ArgTable(first), k)

\* the array of tables the document holds under name a, as plain tables
TablesAt(a) ==
  LET v == DictGet(doc, a)
  IN IF v.kind = "list" /\ Len(v.items) > 0 /\ \A i \in DOMAIN v.items : v.items[i].val.kind = "dict"
     THEN [i \in DOMAIN v.items |-> v.items[i].val]
     ELSE <<>>

\* the elements of an array of tables in which name k resolves
Resolving(tables, k) == {i \in DOMAIN tables : HasKey(tables[i], k)}

\* the proxy last called is a chain from the document root over an array of tables
\* and then one name
ArrayChain(kind) ==
  /\ last.op = "iter_call"
  /\ proxies[last.self].kind = kind
  /\ proxies[1].data = trees[1].obj
  /\ Len(proxies[last.self].subindex) = 2
  /\ TablesAt(proxies[last.self].subindex[1]) # <<>>

\* the proxy last called is a chain from the document root that reaches an array of
\* tables in one access
ArrayChainTo(kind) ==
  /\ last.op = "iter_call"
  /\ proxies[last.self].kind = kind
  /\ proxies[1].data = trees[1].obj
  /\ Len(proxies[last.self].subindex) = 1
  /\ TablesAt(proxies[last.self].subindex[1]) # <<>>

\* C18: first_of on the document root with a usable fallback builds a chain, and a
\* chain of kind "first" over an array of tables and a name, invoked, returns the
\* name's value in the first element, in array order, that holds the name.
C18_FirstOfReturnsFirstResolved ==
  /\ (last.op = "first_of" /\ (~Truthy(last.val) \/ Iterable(last.val))
        => last.status = "ok")
  /\ (ArrayChain("first") =>
        LET sub == proxies[last.self].subindex
            tables == TablesAt(sub[1])
            hits == Resolving(tables, sub[2])
        IN hits # {} =>
             /\ last.status = "ok"
             /\ last.val = DictGet(tables[CHOOSE i \in hits : \A j \in hits : i <= j], sub[2]))

\* no element yields a value for proxy p: it was built on an empty array, or it is one
\* access away from the document root and the name is missing or names an empty array
NoYield(p) ==
  \/ /\ proxies[p].parent = 0
     /\ proxies[p].data.kind \in {"list", "GuardList"}
     /\ Len(proxies[p].data.items) = 0
  \/ /\ proxies[1].data = trees[1].obj
     /\ Len(proxies[p].subindex) = 1
     /\ \/ ~HasKey(doc, proxies[p].subindex[1])
        \/ DictGet(doc, proxies[p].subindex[1]) = ListV(<<>>)

\* C19: invoking a proxy of kind "all" for which no element yields a value (its array
\* is empty or the accessed path is missing) returns the fallback when one was
\* supplied, an empty list included, and raises TomlAccessError when none was.
C19_AllFallsBackWhenNothingYields ==
  (last.op = "iter_call" /\ proxies[last.self].kind = "all" /\ NoYield(last.self)) =>
    IF proxies[last.self].fallback = TupleNone
    THEN last.status = "TomlAccessError"
    ELSE last.status = "ok" /\ last.val = proxies[last.self].fallback

\* no name is a key of two of the tables
DisjointKeys(tables) ==
  \A i, j \in DOMAIN tables : i # j => \A k \in Keys(tables[i]) : ~HasKey(tables[j], k)

\* C20: a chain of kind "flat" from the document root that reaches an array of tables
\* with pairwise disjoint keys, invoked, returns one mapping whose keys are the union
\* of the elements' keys, each with the value it has in its element.
C20_FlattenIsUnionOfElements ==
  (ArrayChainTo("flat") /\ DisjointKeys(TablesAt(proxies[last.self].subindex[1]))) =>
    LET tables == TablesAt(proxies[last.self].subindex[1])
    IN /\ last.status = "ok"
       /\ last.val.kind = "dict"
       /\ Keys(last.val) = UNION {Keys(tables[i]) : i \in DOMAIN tables}
       /\ \A i \in DOMAIN tables : \A k \in Keys(tables[i]) :
            DictGet(last.val, k) = DictGet(tables[i], k)

\* C21: an access on a TomlerIterProxy, by attribute or by item, makes a proxy with the
\* receiver's base index and the receiver's sub-index followed by the accessed names
\* in order, and leaves every proxy already held, the receiver included, as it was.
C21_AccessExtendsSubindexOnly ==
  [][last'.op \in {"iter_getattr", "iter_getitem"} =>
       /\ proxies'[last'.made].index = proxies[last'.self].index
       /\ proxies'[last'.made].subindex = proxies[last'.self].subindex \o last'.keys
       /\ \A p \in DOMAIN proxies : proxies'[p] = proxies[p]]_vars

\* a proxy two accesses away from its construction, one of them by a tuple of keys
C21_Witness ==
  /\ last.op = "iter_getitem"
  /\ proxies[last.self].subindex # <<>>
  /\ Len(proxies[last.made].subindex) = 3
  /\ proxies[last.made].index = <<ROOT>>

\* the trees a navigation step has just made
MadeTrees == {i \in DOMAIN trees' : i \notin DOMAIN trees}

\* C22 as claimed: every tree a navigation step makes, an element tree of an array of
\* tables included, has the index of the tree the step started from followed by the
\* accessed name, so that its length is the number of steps from the root plus one;
\* the step changes no tree already held.
C22_EveryStepAppendsName ==
  [][last'.op = "navigate" =>
       /\ \A i \in DOMAIN trees : trees'[i] = trees[i]
       /\ \A i \in MadeTrees :
            /\ trees'[i].obj.index = trees[last'.self].obj.index \o last'.keys
            /\ Len(trees'[i].obj.index) = trees'[i].steps + 1]_vars

\* C22 as amended: a step that enters a table makes a tree whose index is the starting
\* tree's index followed by the accessed name; a step onto an array of tables makes
\* element trees that carry the starting tree's index unchanged. An index is the root
\* sentinel followed by as many names as tables were entered, and the step changes no
\* tree already held.
C22_TableStepsAppendName ==
  [][last'.op = "navigate" =>
       /\ \A i \in DOMAIN trees : trees'[i] = trees[i]
       /\ \A i \in MadeTrees :
            /\ trees'[i].obj.index =
                 IF last'.val.kind = "GuardBase"
                 THEN trees[last'.self].obj.index \o last'.keys
                 ELSE trees[last'.self].obj.index
            /\ trees'[i].obj.index[1] = ROOT
            /\ Len(trees'[i].obj.index) = trees'[i].table_steps + 1]_vars

\* an element tree of an array held by a table one step below the root
C22_Witness ==
  /\ last.op = "navigate" /\ last.val.kind = "GuardList" /\ last.made # 0
  /\ trees[last.made].steps = 2
  /\ Len(trees[last.made].obj.index) = 2

\* the target of a proxy is a value that is neither a tree nor the marker of a miss
LeafTarget(self) == self.data.kind \notin {"GuardBase", "NullFallback"}

\* C23: an attribute access on a guarded proxy whose target is a leaf value makes a
\* proxy with the same target, fallback and declared type, whose index is the
\* receiver's index followed by the name; the target does not become the marker of a
\* miss.
C23_LeafAccessKeepsTarget ==
  (last.op = "getattr" /\ LeafTarget(Receiver)) =>
    /\ Made.data = Receiver.data
    /\ Made.data.kind # "NullFallback"
    /\ Made.fallback = Receiver.fallback
    /\ Made.types = Receiver.types
    /\ Made.index = Receiver.index \o Made.via

\* an access on a proxy that holds a string found in the document
C23_Witness ==
  /\ last.op = "getattr" /\ Receiver.data.kind = "str" /\ ~Receiver.missed
  /\ Len(Made.index) = 3 /\ Len(Made.via) = 1

\* C24: no operation removes an entry from the registry of defaulted paths, and only
\* invoking a proxy adds one: navigation, the entry point, building a chain and merge
\* leave the registry as it was.
C24_RegistryOnlyGrowsOnCall ==
  [][/\ \A e \in BagToSet(defaulted) : BagIn(e, defaulted')
     /\ defaulted' # defaulted => last'.op = "call"]_vars

\* a second entry has joined the registry, after navigation and a merge in between
C24_Witness ==
  /\ BagCardinality(defaulted) >= 2
  /\ Len(trees) >= 2
  /\ last.op = "merge"

\* the first of the tables that holds key k
Earliest(tables, k) ==
  tables[CHOOSE i \in Resolving(tables, k) : \A j \in Resolving(tables, k) : i <= j]

\* the keys that two of the tables hold
SharedKeys(tables) ==
  {k \in UNION {Keys(tables[i]) : i \in DOMAIN tables} : Cardinality(Resolving(tables, k)) >= 2}

\* C25: a chain of kind "flat" that reaches an array of tables in which two elements
\* hold the same key, invoked, either raises or returns a mapping in which the key has
\* the earlier element's value, never the later element's in its place.
C25_FlatKeepsEarlierValue ==
  ArrayChainTo("flat") =>
    LET tables == TablesAt(proxies[last.self].subindex[1])
    IN \A k \in SharedKeys(tables) :
         \/ last.status # "ok"
         \/ DictGet(last.val, k) = DictGet(Earliest(tables, k), k)

\* the proxy last called is of kind "all" and holds a sequence with an element in it
AllOverSequence ==
  /\ last.op = "iter_call"
  /\ proxies[last.self].kind = "all"
  /\ Elements(proxies[last.self].data) # <<>>

\* the elements the proxy last called holds
Survivors == Elements(proxies[last.self].data)

RECURSIVE ListsThenItems(_)
\* a list gives its elements, anything else itself as one item
ListsThenItems(vals) ==
  IF vals = <<>> THEN <<>>
  ELSE (IF Head(vals).kind = "list"
        THEN [i \in DOMAIN Head(vals).items |-> Head(vals).items[i].val]
        ELSE <<Head(vals)>>) \o ListsThenItems(Tail(vals))

RECURSIVE Concatenation(_)
\* the elements of lists, one list after the other
Concatenation(vals) ==
  IF vals = <<>> THEN <<>>
  ELSE [i \in DOMAIN Head(vals).items |-> Head(vals).items[i].val] \o Concatenation(Tail(vals))

RECURSIVE PairsOf(_)
\* the (key, value) pairs of tables, one table after the other
PairsOf(vals) ==
  IF vals = <<>> THEN <<>>
  ELSE [i \in DOMAIN Head(vals).items |->
          Obj("tuple", 0, "", <<KV("", StrV(Head(vals).items[i].key)),
                                KV("", Head(vals).items[i].val)>>, <<>>)]
       \o PairsOf(Tail(vals))

\* C26 as claimed: invoking a proxy of kind "all" that holds at least one element
\* returns the list made, in array order, of the elements of every element that is a
\* list and of every other element as a single item.
C26_AllExtendsListsAppendsOthers ==
  AllOverSequence =>
    /\ last.status = "ok"
    /\ last.val = ListV(ListsThenItems(Survivors))

\* C26 as amended: when every element is a list the call returns their concatenation
\* in array order; when every element is a table it returns their (key, value) pairs
\* in array order; when some element cannot be iterated, a number for one, the call
\* raises TypeError and nothing is contributed as a single item.
C26_AllConcatenatesIterables ==
  AllOverSequence =>
    /\ (\A i \in DOMAIN Survivors : Survivors[i].kind = "list")
         => last.status = "ok" /\ last.val = ListV(Concatenation(Survivors))
    /\ (\A i \in DOMAIN Survivors : Survivors[i].kind = "GuardBase")
         => last.status = "ok" /\ last.val = ListV(PairsOf(Survivors))
    /\ (\E i \in DOMAIN Survivors : Survivors[i].kind \in {"int", "bool", "none"})
         => last.status = "TypeError"

\* a call of kind "all" on an array that holds lists and a number
C26_Witness ==
  /\ AllOverSequence
  /\ \E i \in DOMAIN Survivors : Survivors[i].kind = "list"
  /\ \E i \in DOMAIN Survivors : Survivors[i].kind = "int"
  /\ last.status = "TypeError"

\* the tables that hold every key of the mapping K with K's value
Matching(tables, K) ==
  {i \in DOMAIN tables :
     \A k \in Keys(K) : HasKey(tables[i], k) /\ DictGet(tables[i], k) = DictGet(K, k)}

\* C27: match_on on the document root builds a chain, and a chain of a dict kind that
\* reaches an array of tables, invoked, returns the first element, in array order,
\* that holds every key of the match map with the map's value, and raises
\* TomlAccessError when no element does.
C27_MatchOnReturnsFirstMatch ==
  /\ last.op = "match_on" => last.status = "ok"
  /\ ArrayChainTo("dict") =>
       LET tables == TablesAt(proxies[last.self].subindex[1])
           hits == Matching(tables, proxies[last.self].match)
       IN IF hits = {} THEN last.status = "TomlAccessError"
          ELSE /\ last.status = "ok"
               /\ last.val.kind = "GuardBase"
               /\ last.val.items = tables[CHOOSE i \in hits : \A j \in hits : i <= j].items

\* the chain of proxy self run on its own: entered afresh from the tree it was entered
\* on, its path accessed, and called against an empty registry
Alone(self) ==
  LET entry == FailureProxy(self.entry, self.types, <<>>, self.fallback).proxy
      chain == FoldGetAttr(<<entry>>, 1, self.path)
  IN FailureCall(chain[Len(chain)], EmptyBag, "None", "None")

\* C28: whatever steps of another chain come in between, a step that builds a chain
\* leaves every proxy already held as it was, and a call ends as the chain run on its
\* own ends and adds to the registry exactly what that run records, so that the
\* results and the final registry do not depend on the order of the steps.
C28_ChainsDoNotInterfere ==
  [][/\ \A p \in DOMAIN proxies : proxies'[p] = proxies[p]
     /\ last'.op = "call" =>
          LET alone == Alone(proxies[last'.self])
          IN /\ last'.status = alone.out.status
             /\ last'.val = alone.out.val
             /\ BagToSet(defaulted') = BagToSet(defaulted) \cup BagToSet(alone.reg)
     /\ last'.op # "call" => defaulted' = defaulted]_vars

\* both chains have been called, the second after the first had recorded its entry
C28_Witness ==
  /\ Entries(proxies) = 2
  /\ last.op = "call"
  /\ BagCardinality(last.before) >= 1
  /\ BagCardinality(defaulted) >= 2
  /\ proxies[last.self].parent # 0

\* C29: a call on a guarded proxy that ends in an error, no value and no fallback or
\* a final value that fails the declared type, leaves the registry of defaulted paths
\* as it was before the call.
C29_FailedCallRecordsNothing ==
  (Called /\ last.status # "ok") => defaulted = last.before

\* the tree constructed directly from the mapping that merges the arguments' tables,
\* the earliest argument winning
DirectTree == GuardBase(ChainMap([i \in DOMAIN last.keys |-> ArgTable(i)]), <<>>)

\* two reads end alike: both raise the same error, or both return equal values
SameValue(a, b) == a.status = b.status /\ (a.status = "ok" => Plain(a.val) = Plain(b.val))

\* the (key, value) pairs or the values a read returned, compared as collections
SameItems(a, b) ==
  /\ a.status = b.status
  /\ a.status = "ok" =>
       {<<a.val[i].key, Plain(a.val[i].val)>> : i \in DOMAIN a.val}
         = {<<b.val[i].key, Plain(b.val[i].val)>> : i \in DOMAIN b.val}
SameValues(a, b) ==
  /\ a.status = b.status
  /\ a.status = "ok" =>
       {Plain(a.val[i]) : i \in DOMAIN a.val} = {Plain(b.val[i]) : i \in DOMAIN b.val}

\* C30: the tree merge returns reads as the tree constructed directly from the merged
\* mapping does: attribute and item access, contains, len, keys(), items(), values()
\* and iteration give equal results, and neither raises where the other does not.
C30_MergedReadsAsDirect ==
  (Merged /\ last.status = "ok") =>
    /\ \A k \in Names :
         /\ SameValue(AccessGetAttr(last.val, k), AccessGetAttr(DirectTree, k))
         /\ SameValue(AccessGetItem(last.val, <<k>>), AccessGetItem(DirectTree, <<k>>))
         /\ GuardContains(last.val, k) = GuardContains(DirectTree, k)
    /\ GuardLen(last.val) = GuardLen(DirectTree)
    /\ Keys(last.val) = Keys(DirectTree)
    /\ SameItems(GuardItems(last.val), GuardItems(DirectTree))
    /\ SameValues(GuardValues(last.val), GuardValues(DirectTree))
    /\ SameItems(GuardIter(last.val), GuardIter(DirectTree))
====
